---- MODULE Spec2Model ----
\* Model of plugins/inputs/binance/binance.go: the Binance input plugin.
\* Init validates the configuration and verifies the symbol against the
\* exchange-info endpoint; Gather fetches, decodes and parses the price and
\* hands errors and the metric to the accumulator.
\*
\* Go strings are sequences of tokens (one-character strings, or a literal of
\* the source kept as one token). A float64 price is a fixed-point integer:
\* the value times PriceScale.
EXTENDS Integers, Sequences, FiniteSets, TLC

VARIABLES
    BaseAsset,        \* Binance.BaseAsset
    QuoteAsset,       \* Binance.QuoteAsset
    Timeout,          \* Binance.Timeout, in seconds
    tags,             \* Binance.tags: set of <<key, value>>, {} is the nil map
    priceURL,         \* Binance.priceURL
    exchangeInfoURL,  \* Binance.exchangeInfoURL
    phase,            \* "Unvalidated", then "Validated" or "Rejected" by Init's return
    op,               \* the last call made by the host: "none", "Init", "Gather"
    reply,            \* what the remote side did to the last call's request
    ret,              \* the error returned by the last call
    acc,              \* the accumulator calls made by the last call, in order
    reqs,             \* requests the last call put on the wire
    prevFailed,       \* the Gather before the last one failed at the transport
    doCalls,          \* client.Do calls made by the last call
    ctxState,         \* the last call's deadline context: "none", "live", "cancelled"
    respBody,         \* the last call's response body: "none", "open", "closed"
    atInit,           \* the receiver as Init left it
    nGather,          \* Gather calls counted so far
    nMetrics,         \* AddFields calls counted so far
    hdr,              \* the process-wide header map
    inst,             \* several collectors of this configuration: where each is in its call
    wire              \* the headers of the requests those collectors have sent

vars == <<BaseAsset, QuoteAsset, Timeout, tags, priceURL, exchangeInfoURL,
          phase, op, reply, ret, acc, reqs, prevFailed,
          doCalls, ctxState, respBody, atInit, nGather, nMetrics,
          hdr, inst, wire>>

\* The state of the one collector the host drives call by call.
one == <<BaseAsset, QuoteAsset, Timeout, tags, priceURL, exchangeInfoURL,
         phase, op, reply, ret, acc, reqs, prevFailed,
         doCalls, ctxState, respBody, atInit, nGather, nMetrics>>

\* The state of the collectors that run side by side.
fleet == <<hdr, inst, wire>>

----------------------------------------------------------------------------
\* Bounds of the model.

MaxAssetLen == 1
MaxPriceLen == 2
MaxCalls == 3
MaxInstances == 2

\* Program constants.

StatusOK == 200
DefaultTimeout == 5
ClientTimeout == 5

----------------------------------------------------------------------------
\* Strings.

Range(s) == {s[i] : i \in 1..Len(s)}

SeqsUpTo(S, n) == UNION {[1..k -> S] : k \in 0..n}

Contains(s, sub) ==
    \E i \in 1..(Len(s) - Len(sub) + 1) : SubSeq(s, i, i + Len(sub) - 1) = sub

IndexOf(s, c) ==
    IF c \in Range(s) THEN CHOOSE i \in 1..Len(s) : s[i] = c /\ \A j \in 1..(i-1) : s[j] # c
    ELSE 0

Digits == <<"0", "1", "2", "3", "4", "5", "6", "7", "8", "9">>

RECURSIVE Pow10(_)
Pow10(n) == IF n = 0 THEN 1 ELSE 10 * Pow10(n - 1)

RECURSIVE UItoa(_)
UItoa(n) == IF n < 10 THEN <<Digits[n + 1]>> ELSE UItoa(n \div 10) \o <<Digits[(n % 10) + 1]>>

\* The %d verb of fmt.
Itoa(n) == IF n < 0 THEN <<"-">> \o UItoa(0 - n) ELSE UItoa(n)

Whitespace == {" ", "\t", "\n", "\r"}

RECURSIVE TrimLeft(_)
TrimLeft(s) == IF s # <<>> /\ Head(s) \in Whitespace THEN TrimLeft(Tail(s)) ELSE s

RECURSIVE TrimRight(_)
TrimRight(s) ==
    IF s # <<>> /\ s[Len(s)] \in Whitespace THEN TrimRight(SubSeq(s, 1, Len(s) - 1)) ELSE s

TrimSpace(s) == TrimRight(TrimLeft(s))

----------------------------------------------------------------------------
\* Errors: the message, and the message of the error wrapped with %w.

NilErr == [nil |-> TRUE, msg |-> <<>>, wraps |-> <<>>]

NewError(text) == [nil |-> FALSE, msg |-> text, wraps |-> <<>>]

Errorf(text, cause) == [nil |-> FALSE, msg |-> text \o <<": ">> \o cause.msg, wraps |-> cause.msg]

----------------------------------------------------------------------------
\* strconv.ParseFloat(s, 64): sign, digits with at most one point, at least
\* one digit, nothing left over. A syntax error returns 0 with the error.

PriceScale == Pow10(MaxPriceLen)

IsDigit(c) == c \in Range(Digits)

DigitVal(c) == IndexOf(Digits, c) - 1

RECURSIVE ReadFloat(_, _, _, _, _)
ReadFloat(s, mant, frac, sawdot, sawdigits) ==
    IF s = <<>> THEN [ok |-> sawdigits, mant |-> mant, frac |-> frac]
    ELSE IF Head(s) = "." THEN
        IF sawdot THEN [ok |-> FALSE, mant |-> mant, frac |-> frac]
        ELSE ReadFloat(Tail(s), mant, frac, TRUE, sawdigits)
    ELSE IF IsDigit(Head(s)) THEN
        ReadFloat(Tail(s), 10 * mant + DigitVal(Head(s)), IF sawdot THEN frac + 1 ELSE frac,
                  sawdot, TRUE)
    ELSE [ok |-> FALSE, mant |-> mant, frac |-> frac]

ParseFloat(s) ==
    LET neg  == s # <<>> /\ Head(s) = "-"
        body == IF s # <<>> /\ Head(s) \in {"+", "-"} THEN Tail(s) ELSE s
        r    == ReadFloat(body, 0, 0, FALSE, FALSE)
        v    == (r.mant * PriceScale) \div Pow10(r.frac)
    IN  IF r.ok
        THEN [f |-> IF neg THEN 0 - v ELSE v, err |-> NilErr]
        ELSE [f |-> 0,
              err |-> Errorf(<<"strconv.ParseFloat: parsing ">> \o s, NewError(<<"invalid syntax">>))]

----------------------------------------------------------------------------
\* URLs.

baseApiUrlString == <<"https://api.binance.com/api/v3">>

priceUrlString == baseApiUrlString \o <<"/ticker/price">>

exchangeInfoUrlString == baseApiUrlString \o <<"/exchangeInfo">>

header == {<<"User-Agent", "Telegraf">>, <<"Accept", "application/json">>,
           <<"Content-Type", "application/json">>}

NilURL == [nil |-> TRUE, Base |-> <<>>, RawQuery |-> <<>>, Fragment |-> <<>>]

\* Bytes below the space, which url.Parse rejects anywhere in the URL.
CtlChars == {"\t", "\n", "\r"}

\* Escaping of a fragment: "#" is written "%23".
EscapeFragment(s) == [i \in 1..Len(s) |-> IF s[i] = "#" THEN "%23" ELSE s[i]]

UnescapeFragment(s) == [i \in 1..Len(s) |-> IF s[i] = "%23" THEN "#" ELSE s[i]]

\* url.Parse: no control character; the fragment is what follows the first
\* "#", unescaped; the query is what follows the first "?" of the rest.
ParseURL(s) ==
    IF Range(s) \cap CtlChars # {}
    THEN [u |-> NilURL, err |-> Errorf(<<"parse ">> \o s, NewError(<<"net/url: invalid control character in URL">>))]
    ELSE LET h    == IndexOf(s, "#")
             rest == IF h = 0 THEN s ELSE SubSeq(s, 1, h - 1)
             frag == IF h = 0 THEN <<>> ELSE UnescapeFragment(SubSeq(s, h + 1, Len(s)))
             q    == IndexOf(rest, "?")
         IN  [u |-> [nil      |-> FALSE,
                     Base     |-> IF q = 0 THEN rest ELSE SubSeq(rest, 1, q - 1),
                     RawQuery |-> IF q = 0 THEN <<>> ELSE SubSeq(rest, q + 1, Len(rest)),
                     Fragment |-> frag],
              err |-> NilErr]

\* (*url.URL).String
URLString(u) ==
    u.Base \o (IF u.RawQuery # <<>> THEN <<"?">> \o u.RawQuery ELSE <<>>)
           \o (IF u.Fragment # <<>> THEN <<"#">> \o EscapeFragment(u.Fragment) ELSE <<>>)

\* http.NewRequestWithContext: parses the URL again.
NewRequestWithContext(urlStr) ==
    LET p == ParseURL(urlStr)
    IN  [r |-> [nil |-> ~p.err.nil, URL |-> p.u, Header |-> {}], err |-> p.err]

----------------------------------------------------------------------------
\* JSON documents of a response body. A field of a document is absent, of a
\* JSON type the Go field cannot take, or a value.

Val(v) == [st |-> "ok", v |-> v]
NoInt == [st |-> "absent", v |-> 0]
BadInt == [st |-> "wrongtype", v |-> 0]
NoStr == [st |-> "absent", v |-> <<>>]
BadStr == [st |-> "wrongtype", v |-> <<>>]

Object(c, m, s, p) == [kind |-> "object", code |-> c, msg |-> m, symbol |-> s, price |-> p]

NonObject(k) == [kind |-> k, code |-> NoInt, msg |-> NoStr, symbol |-> NoStr, price |-> NoStr]

\* {"code":-1121,"msg":"Invalid symbol."}
ErrDoc == Object(Val(0 - 1121), Val(<<"Invalid symbol.">>), NoStr, NoStr)

\* {"symbol":"BTCUSDT","price":p}
TickDoc(p) == Object(NoInt, NoStr, Val(<<"BTCUSDT">>), Val(p))

\* {"code":-1003,"msg":"Too many requests.","symbol":"BTCUSDT","price":"5"}
MixedDoc == Object(Val(0 - 1003), Val(<<"Too many requests.">>), Val(<<"BTCUSDT">>), Val(<<"5">>))

\* {"code":"x","price":5}
TypeDoc == Object(BadInt, NoStr, NoStr, BadStr)

\* {}
EmptyDoc == Object(NoInt, NoStr, NoStr, NoStr)

ArrayDoc == NonObject("array")
NullDoc == NonObject("null")
Malformed == NonObject("malformed")

\* json.Unmarshal of one document into *payload or *tick: a syntax error for
\* malformed text, a type error for a non-object or a field of the wrong JSON
\* type; null is a no-op; unknown fields are ignored, missing ones stay zero.
Unmarshal(doc, fa, fb) ==
    IF doc.kind = "malformed" THEN NewError(<<"invalid character">>)
    ELSE IF doc.kind = "array" THEN NewError(<<"json: cannot unmarshal array into Go value">>)
    ELSE IF doc.kind = "object" /\ (doc[fa].st = "wrongtype" \/ doc[fb].st = "wrongtype")
    THEN NewError(<<"json: cannot unmarshal into Go struct field">>)
    ELSE NilErr

\* (*json.Decoder).readValue: scan the buffer for a value, refill it with one
\* Read of the body while there is none. What a Read returned beyond the
\* value stays in the decoder's buffer and is gone from the body.
RECURSIVE readValue(_, _)
readValue(buf, body) ==
    IF buf # <<>> THEN [eof |-> FALSE, doc |-> Head(buf), rest |-> body]
    ELSE IF body = <<>> THEN [eof |-> TRUE, doc |-> NullDoc, rest |-> body]
    ELSE readValue(Head(body), Tail(body))

\* json.NewDecoder(resp.Body).Decode(p) with p a *payload
DecodePayload(body) ==
    LET rv  == readValue(<<>>, body)
        err == IF rv.eof THEN NewError(<<"EOF">>) ELSE Unmarshal(rv.doc, "code", "msg")
    IN  [err  |-> err,
         Code |-> IF rv.doc.code.st = "ok" THEN rv.doc.code.v ELSE 0,
         Msg  |-> IF rv.doc.msg.st = "ok" THEN rv.doc.msg.v ELSE <<>>,
         rest |-> rv.rest]

\* json.NewDecoder(resp.Body).Decode(t) with t a *tick
DecodeTick(body) ==
    LET rv  == readValue(<<>>, body)
        err == IF rv.eof THEN NewError(<<"EOF">>) ELSE Unmarshal(rv.doc, "symbol", "price")
    IN  [err    |-> err,
         Symbol |-> IF rv.doc.symbol.st = "ok" THEN rv.doc.symbol.v ELSE <<>>,
         Price  |-> IF rv.doc.price.st = "ok" THEN rv.doc.price.v ELSE <<>>,
         rest   |-> rv.rest]

----------------------------------------------------------------------------
\* The HTTP client. A reply says whether the connection could be made, after
\* how many seconds the response head arrived, and the response; the body is
\* the sequence of what each Read of it returns.

\* context.WithTimeout(ctx, d) with d <= 0 is expired when it is made, and
\* client.Do then fails before anything is sent. Otherwise the call is cut
\* at the earlier of the context's deadline and the client's own Timeout.
RoundTrip(r, timeout, rep) ==
    IF timeout <= 0
    THEN [err |-> NewError(<<"context deadline exceeded">>), sent |-> 0,
          StatusCode |-> 0, Body |-> <<>>]
    ELSE IF rep.net # "ok"
    THEN [err |-> NewError(<<"connection refused">>), sent |-> 1,
          StatusCode |-> 0, Body |-> <<>>]
    ELSE IF rep.delay >= timeout \/ rep.delay >= ClientTimeout
    THEN [err |-> NewError(<<"context deadline exceeded">>), sent |-> 1,
          StatusCode |-> 0, Body |-> <<>>]
    ELSE [err |-> NilErr, sent |-> 1, StatusCode |-> rep.status, Body |-> rep.body]

ClientDoRetries(r, timeout, rep) ==
    LET d == RoundTrip(r, timeout, rep)
    IN  IF d.err.nil THEN d ELSE [d EXCEPT !.sent = 2 * d.sent]

\* b.client.Do(r): one round trip.
ClientDo(r, timeout, rep) == RoundTrip(r, timeout, rep)

\* The deferred cancel() runs on every return that follows WithTimeout.
CtxAtReturn == "cancelled"

\* The body of a response client.Do returned: neither Init nor Gather calls
\* resp.Body.Close(), so it is as client.Do handed it over.
BodyAtReturn(d) == IF d.err.nil THEN "open" ELSE "none"

----------------------------------------------------------------------------
\* The accumulator: the calls a Gather made on it, in order.

AddError(e) == [call |-> "AddError", err |-> e, measurement |-> "", fields |-> {}, tags |-> {}]

AddFields(m, f, t) == [call |-> "AddFields", err |-> NilErr, measurement |-> m, fields |-> f, tags |-> t]

Errors(events) == SelectSeq(events, LAMBDA e : e.call = "AddError")

Metrics(events) == SelectSeq(events, LAMBDA e : e.call = "AddFields")

----------------------------------------------------------------------------
\* The plugin. b is the receiver: the fields of the Binance struct.

Symbol(b) == b.BaseAsset \o b.QuoteAsset

RemoteErrorNoCode(b, p) ==
    NewError(<<"binance responsed with status ">> \o p.Msg \o <<" for symbol ">> \o Symbol(b))

\* "binance responsed with status %s (code %d) for symbol %s"
RemoteError(b, p) ==
    NewError(<<"binance responsed with status ">> \o p.Msg \o <<" (code ">> \o Itoa(p.Code)
             \o <<") for symbol ">> \o Symbol(b))

ConfigEmptyEither(b) == b.BaseAsset = <<>> \/ b.QuoteAsset = <<>>

ConfigEmptyBoth(b) == b.BaseAsset = <<>> /\ b.QuoteAsset = <<>>

\* Init's validation of the configuration.
ConfigInvalid(b) == ConfigEmptyEither(b)

\* Init up to the request: validation, tags, the two URLs, the request.
InitPrepare(b) ==
    IF ConfigInvalid(b)
    THEN [err |-> NewError(<<"base_asset and quote_asset cannot be empty">>),
          tags |-> b.tags, priceURL |-> b.priceURL, exchangeInfoURL |-> b.exchangeInfoURL]
    ELSE LET t     == {<<"base", b.BaseAsset>>, <<"quote", b.QuoteAsset>>}
             query == <<"symbol=">> \o b.BaseAsset \o b.QuoteAsset
             pu    == ParseURL(priceUrlString \o <<"?">> \o query)
             eu    == ParseURL(exchangeInfoUrlString \o <<"?">> \o query)
         IN  IF ~pu.err.nil
             THEN [err |-> Errorf(<<"failed to parse url ">> \o priceUrlString, pu.err),
                   tags |-> t, priceURL |-> pu.u, exchangeInfoURL |-> b.exchangeInfoURL]
             ELSE IF ~eu.err.nil
             THEN [err |-> Errorf(<<"failed to parse url ">> \o exchangeInfoUrlString, eu.err),
                   tags |-> t, priceURL |-> pu.u, exchangeInfoURL |-> eu.u]
             ELSE LET nr == NewRequestWithContext(URLString(eu.u))
                  IN  [err |-> IF nr.err.nil THEN NilErr
                               ELSE Errorf(<<"failed to create request for ">> \o URLString(eu.u), nr.err),
                       tags |-> t, priceURL |-> pu.u, exchangeInfoURL |-> eu.u]

InitVerifyReadsBody(b, d) ==
    IF ~d.err.nil
    THEN Errorf(<<"failed to get response from ">> \o URLString(b.exchangeInfoURL), d.err)
    ELSE LET p == DecodePayload(d.Body)
         IN  IF ~p.err.nil
             THEN Errorf(<<"cannot decode response from ">> \o URLString(b.exchangeInfoURL), p.err)
             ELSE IF d.StatusCode # StatusOK THEN RemoteError(b, p)
             ELSE NilErr

InitVerifyIgnoresTransport(b, d) ==
    IF ~d.err.nil
    THEN NilErr
    ELSE IF d.StatusCode # StatusOK
    THEN LET p == DecodePayload(d.Body)
         IN  IF ~p.err.nil
             THEN Errorf(<<"cannot decode response from ">> \o URLString(b.exchangeInfoURL), p.err)
             ELSE RemoteError(b, p)
    ELSE NilErr

\* Init from client.Do on: the error Init returns for the outcome of the
\* exchange-info request.
InitVerify(b, d) ==
    IF ~d.err.nil
    THEN Errorf(<<"failed to get response from ">> \o URLString(b.exchangeInfoURL), d.err)
    ELSE IF d.StatusCode # StatusOK
    THEN LET p == DecodePayload(d.Body)
         IN  IF ~p.err.nil
             THEN Errorf(<<"cannot decode response from ">> \o URLString(b.exchangeInfoURL), p.err)
             ELSE RemoteError(b, p)
    ELSE NilErr

\* (*Binance).Init
InitCall(b, rep) ==
    LET pre == InitPrepare(b)
        b1  == [b EXCEPT !.tags = pre.tags, !.priceURL = pre.priceURL,
                         !.exchangeInfoURL = pre.exchangeInfoURL]
        d   == ClientDo(header, b.Timeout, rep)
    IN  IF ~pre.err.nil
        THEN [ret |-> pre.err, b |-> b1, reqs |-> 0, dos |-> 0,
              ctx |-> IF ConfigInvalid(b) \/ b1.priceURL.nil \/ b1.exchangeInfoURL.nil
                      THEN "none" ELSE CtxAtReturn,
              body |-> "none"]
        ELSE [ret |-> InitVerify(b1, d), b |-> b1, reqs |-> d.sent, dos |-> 1,
              ctx |-> CtxAtReturn, body |-> BodyAtReturn(d)]

SetHeaderAddsEntry(r, h) ==
    [r      |-> [r EXCEPT !.Header = h \cup {<<"Authorization", "">>}],
     shared |-> h \cup {<<"Authorization", "">>}]

\* r.Header = header: the request's Header becomes the process-wide map h
\* itself, not a copy; the assignment reads the variable and writes nothing
\* into the map. Gives the request and the map as the statement leaves them.
SetHeader(r, h) == [r |-> [r EXCEPT !.Header = h], shared |-> h]

\* (*Binance).createRequest: the error of NewRequestWithContext is dropped.
createRequest(b) ==
    LET nr == NewRequestWithContext(URLString(b.priceURL))
    IN  [r |-> [nr.r EXCEPT !.Header = header], err |-> NilErr]

PriceOfUntrimmed(t) == ParseFloat(t.Price)

\* strconv.ParseFloat(strings.TrimSpace(t.Price), 64)
PriceOf(t) == ParseFloat(TrimSpace(t.Price))

GatherParseEmitsFirst(b, events, t) ==
    LET pf     == PriceOf(t)
        fields == {<<"price", pf.f>>}
        ev     == Append(events, AddFields("binance", fields, b.tags))
    IN  [ret |-> NilErr,
         acc |-> IF ~pf.err.nil
                 THEN Append(ev, AddError(Errorf(<<"cannot parse price ">> \o t.Price, pf.err)))
                 ELSE ev,
         b   |-> b]

GatherParseEmitsTwice(b, events, t) ==
    LET pf     == PriceOf(t)
        fields == {<<"price", pf.f>>}
        m      == AddFields("binance", fields, b.tags)
    IN  [ret |-> NilErr,
         acc |-> IF ~pf.err.nil
                 THEN events \o <<m, AddError(Errorf(<<"cannot parse price ">> \o t.Price, pf.err)), m>>
                 ELSE Append(events, m),
         b   |-> b]

\* Gather from strconv.ParseFloat on: the assignment stores ParseFloat's
\* result under "price" whether or not it comes with an error.
GatherParse(b, events, t) ==
    LET pf     == PriceOf(t)
        fields == {<<"price", pf.f>>}
        ev     == IF ~pf.err.nil
                  THEN Append(events, AddError(Errorf(<<"cannot parse price ">> \o t.Price, pf.err)))
                  ELSE events
    IN  [ret |-> NilErr, acc |-> Append(ev, AddFields("binance", fields, b.tags)), b |-> b]

GatherTickNoReturn(b, events, body) ==
    LET t == DecodeTick(body)
    IN  IF ~t.err.nil
        THEN GatherParse(b, Append(events, AddError(Errorf(<<"cannot decode response from ">>
                                                            \o URLString(b.priceURL), t.err))), t)
        ELSE GatherParse(b, events, t)

\* Gather from the tick decode on, reading what is left of the body.
GatherTick(b, events, body) ==
    LET t == DecodeTick(body)
    IN  IF ~t.err.nil
        THEN [ret |-> NilErr,
              acc |-> Append(events, AddError(Errorf(<<"cannot decode response from ">>
                                                      \o URLString(b.priceURL), t.err))),
              b   |-> b]
        ELSE GatherParse(b, events, t)

GatherStatusKeepsNothing(b, body) ==
    LET p == DecodePayload(body)
    IN  IF ~p.err.nil
        THEN [ret |-> Errorf(<<"cannot decode response from ">> \o URLString(b.priceURL), p.err),
              acc |-> <<>>,
              b   |-> [b EXCEPT !.priceURL = NilURL]]
        ELSE [ret |-> NilErr, acc |-> <<AddError(RemoteError(b, p))>>,
              b   |-> [b EXCEPT !.priceURL = NilURL]]

\* Gather's branch for a status other than 200.
GatherStatus(b, body) ==
    LET p == DecodePayload(body)
    IN  IF ~p.err.nil
        THEN [ret |-> Errorf(<<"cannot decode response from ">> \o URLString(b.priceURL), p.err),
              acc |-> <<>>,
              b   |-> b]
        ELSE GatherTick(b, <<AddError(RemoteError(b, p))>>, p.rest)

GatherTransportResets(b, d) ==
    [ret |-> NilErr,
     acc |-> <<AddError(Errorf(<<"failed to get response from ">> \o URLString(b.priceURL), d.err))>>,
     b   |-> [b EXCEPT !.tags = {}]]

\* Gather's branch for a failed client.Do.
GatherTransport(b, d) ==
    [ret |-> NilErr,
     acc |-> <<AddError(Errorf(<<"failed to get response from ">> \o URLString(b.priceURL), d.err))>>,
     b   |-> b]

\* (*Binance).Gather: what it returns, what it calls on the accumulator, how
\* many requests it sends, and the receiver as it leaves it.
GatherCall(b, rep) ==
    LET cr == createRequest(b)
        d  == ClientDo(cr.r.Header, b.Timeout, rep)
        o  == IF ~d.err.nil THEN GatherTransport(b, d)
              ELSE IF d.StatusCode # StatusOK THEN GatherStatus(b, d.Body)
              ELSE GatherTick(b, <<>>, d.Body)
    IN  IF ~cr.err.nil
        THEN [ret |-> Errorf(<<"failed to create request">>, cr.err), acc |-> <<>>,
              reqs |-> 0, b |-> b, dos |-> 0, ctx |-> "live", body |-> "none"]
        ELSE [ret |-> o.ret, acc |-> o.acc, reqs |-> d.sent, b |-> o.b, dos |-> 1,
              ctx |-> CtxAtReturn, body |-> BodyAtReturn(d)]

----------------------------------------------------------------------------
\* The inputs: configurations and remote replies.

AssetChars == {"B", "#", "\n"}

Assets == SeqsUpTo(AssetChars, MaxAssetLen)

Timeouts == {0, DefaultTimeout}

PriceChars == {" ", "5", "."}

PriceStrs == SeqsUpTo(PriceChars, MaxPriceLen) \cup {<<"N", "/", "A">>}

BaseDocs == {ErrDoc, MixedDoc, TypeDoc, EmptyDoc, ArrayDoc, NullDoc, Malformed,
             TickDoc(<<"5">>), TickDoc(<<"N", "/", "A">>)}

Docs == BaseDocs \cup {TickDoc(p) : p \in PriceStrs}

HeadDocs == {ErrDoc, Malformed, TickDoc(<<"5">>)}

TailDocs == {TickDoc(<<"5">>), TickDoc(<<"N", "/", "A">>), Malformed}

\* A body is the sequence of its Reads, each the documents it returned: no
\* document, one document, or two documents that arrive in one Read or in
\* two, possibly after a Read that returned nothing.
BodiesOf(D) ==
    {<<>>} \cup {<<<<d>>>> : d \in D}
           \cup {<<<<d, e>>>> : d \in HeadDocs, e \in TailDocs}
           \cup {<<<<d>>, <<e>>>> : d \in HeadDocs, e \in TailDocs}
           \cup {<<<<>>, <<d>>>> : d \in HeadDocs}

NoReply == [net |-> "none", delay |-> 0, status |-> 0, body |-> <<>>]

Replies ==
    {[net |-> "refused", delay |-> 0, status |-> 0, body |-> <<>>]}
        \cup [net : {"ok"}, delay : {1}, status : {StatusOK}, body : BodiesOf(Docs)]
        \cup [net : {"ok"}, delay : {1}, status : {400}, body : BodiesOf(BaseDocs)]
        \cup [net : {"ok"}, delay : {ClientTimeout + 1}, status : {StatusOK},
              body : {<<<<TickDoc(<<"5">>)>>>>}]

----------------------------------------------------------------------------
\* The state machine: the host constructs the plugin, calls Init once and,
\* when Init returned nil, calls Gather again and again.

Instances == 1..MaxInstances

NoRequest == [nil |-> TRUE, URL |-> NilURL, Header |-> {}]

Self == [BaseAsset |-> BaseAsset, QuoteAsset |-> QuoteAsset, Timeout |-> Timeout,
         tags |-> tags, priceURL |-> priceURL, exchangeInfoURL |-> exchangeInfoURL]

\* The last Gather failed at client.Do.
TransportFailed == op = "Gather" /\ ~ClientDo(header, Timeout, reply).err.nil

Init ==
    /\ BaseAsset \in Assets
    /\ QuoteAsset \in Assets
    /\ Timeout \in Timeouts
    /\ tags = {}
    /\ priceURL = NilURL
    /\ exchangeInfoURL = NilURL
    /\ phase = "Unvalidated"
    /\ op = "none"
    /\ reply = NoReply
    /\ ret = NilErr
    /\ acc = <<>>
    /\ reqs = 0
    /\ prevFailed = FALSE
    /\ doCalls = 0
    /\ ctxState = "none"
    /\ respBody = "none"
    /\ atInit = Self
    /\ nGather = 0
    /\ nMetrics = 0
    /\ hdr = header
    /\ inst = [i \in Instances |-> [pc |-> "new", req |-> NoRequest]]
    /\ wire = {}

\* The host activates the collector when Init returned nil and drops it
\* otherwise.
Activates(r) == r.nil

\* The host calls Gather on activated collectors only.
HostMayGather == phase = "Validated"

BinanceInit ==
    /\ phase = "Unvalidated"
    /\ \E rep \in Replies :
        \E o \in {InitCall(Self, rep)} :
            /\ tags' = o.b.tags
            /\ priceURL' = o.b.priceURL
            /\ exchangeInfoURL' = o.b.exchangeInfoURL
            /\ BaseAsset' = o.b.BaseAsset
            /\ QuoteAsset' = o.b.QuoteAsset
            /\ Timeout' = o.b.Timeout
            /\ ret' = o.ret
            /\ reqs' = o.reqs
            /\ reply' = IF o.reqs = 0 THEN NoReply ELSE rep
            /\ phase' = IF Activates(o.ret) THEN "Validated" ELSE "Rejected"
            /\ doCalls' = o.dos
            /\ ctxState' = o.ctx
            /\ respBody' = o.body
            /\ atInit' = o.b
    /\ op' = "Init"
    /\ acc' = <<>>
    /\ UNCHANGED <<prevFailed, nGather, nMetrics>>
    /\ UNCHANGED fleet

\* One Gather call answered by a reply of R.
GatherFrom(R) ==
    /\ HostMayGather
    /\ \E rep \in R :
        \E o \in {GatherCall(Self, rep)} :
            /\ ret' = o.ret
            /\ acc' = o.acc
            /\ reqs' = o.reqs
            /\ reply' = IF o.reqs = 0 THEN NoReply ELSE rep
            /\ tags' = o.b.tags
            /\ priceURL' = o.b.priceURL
            /\ exchangeInfoURL' = o.b.exchangeInfoURL
            /\ BaseAsset' = o.b.BaseAsset
            /\ QuoteAsset' = o.b.QuoteAsset
            /\ Timeout' = o.b.Timeout
            /\ doCalls' = o.dos
            /\ ctxState' = o.ctx
            /\ respBody' = o.body
    /\ op' = "Gather"
    /\ prevFailed' = TransportFailed
    /\ UNCHANGED <<phase, atInit>>
    /\ UNCHANGED fleet

Gather ==
    /\ GatherFrom(Replies)
    /\ UNCHANGED <<nGather, nMetrics>>

Next == BinanceInit \/ Gather

Spec == Init /\ [][Next]_vars

----------------------------------------------------------------------------
\* The same machine with the calls counted: up to MaxCalls Gather calls, each
\* answered by one reply of every kind of outcome.

ReplyKinds ==
    {[net |-> "refused", delay |-> 0, status |-> 0, body |-> <<>>]}
        \cup [net : {"ok"}, delay : {1}, status : {StatusOK},
              body : {<<<<TickDoc(<<"5">>)>>>>, <<<<TickDoc(<<"N", "/", "A">>)>>>>,
                      <<<<Malformed>>>>}]
        \cup [net : {"ok"}, delay : {1}, status : {400},
              body : {<<<<ErrDoc>>>>, <<<<ErrDoc>>, <<TickDoc(<<"5">>)>>>>,
                      <<<<ErrDoc>>, <<TickDoc(<<"N", "/", "A">>)>>>>, <<<<Malformed>>>>}]

GatherCounted ==
    /\ nGather < MaxCalls
    /\ GatherFrom(ReplyKinds)
    /\ nGather' = nGather + 1
    /\ nMetrics' = nMetrics + Len(Metrics(acc'))

NextCalls == BinanceInit \/ GatherCounted

SpecCalls == Init /\ [][NextCalls]_vars

----------------------------------------------------------------------------
\* Several collectors of one configuration, each called by its own goroutine
\* of the host. A call is two steps, building the request and client.Do, and
\* the steps of different collectors interleave freely. All requests refer to
\* the one header map, so what a request carries is the map as it is when
\* the request is sent.

\* The collector as Init has set it up.
Prepared == InitCall(Self, NoReply).b

\* Init up to r.Header = header.
FleetInitRequest(i) ==
    /\ inst[i].pc = "new"
    /\ \E pre \in {InitPrepare(Self)} :
        IF ~pre.err.nil
        THEN /\ inst' = [inst EXCEPT ![i] = [pc |-> "rejected", req |-> NoRequest]]
             /\ hdr' = hdr
        ELSE \E s \in {SetHeader(NewRequestWithContext(URLString(pre.exchangeInfoURL)).r, hdr)} :
                /\ inst' = [inst EXCEPT ![i] = [pc |-> "initReq", req |-> s.r]]
                /\ hdr' = s.shared
    /\ UNCHANGED wire
    /\ UNCHANGED one

\* Init from client.Do on.
FleetInitDo(i) ==
    /\ inst[i].pc = "initReq"
    /\ \E rep \in ReplyKinds :
        \E d \in {ClientDo(inst[i].req.Header, Timeout, rep)} :
            /\ wire' = IF d.sent > 0 THEN wire \cup {[op |-> "Init", Header |-> hdr]} ELSE wire
            /\ inst' = [inst EXCEPT ![i] =
                            [pc  |-> IF Activates(InitVerify(Prepared, d))
                                     THEN "validated" ELSE "rejected",
                             req |-> NoRequest]]
    /\ UNCHANGED hdr
    /\ UNCHANGED one

\* Gather's createRequest.
FleetGatherRequest(i) ==
    /\ inst[i].pc = "validated"
    /\ \E s \in {SetHeader(createRequest(Prepared).r, hdr)} :
        /\ inst' = [inst EXCEPT ![i] = [pc |-> "gatherReq", req |-> s.r]]
        /\ hdr' = s.shared
    /\ UNCHANGED wire
    /\ UNCHANGED one

\* Gather from client.Do on.
FleetGatherDo(i) ==
    /\ inst[i].pc = "gatherReq"
    /\ \E rep \in ReplyKinds :
        \E d \in {ClientDo(inst[i].req.Header, Timeout, rep)} :
            /\ wire' = IF d.sent > 0 THEN wire \cup {[op |-> "Gather", Header |-> hdr]} ELSE wire
    /\ inst' = [inst EXCEPT ![i] = [pc |-> "validated", req |-> NoRequest]]
    /\ UNCHANGED hdr
    /\ UNCHANGED one

NextFleet ==
    \E i \in Instances :
        FleetInitRequest(i) \/ FleetInitDo(i) \/ FleetGatherRequest(i) \/ FleetGatherDo(i)

SpecFleet == Init /\ [][NextFleet]_vars

----------------------------------------------------------------------------
\* Vocabulary of the properties: the last call's response and what its body
\* holds, stated on the documents themselves.

\* What client.Do returned to the last call.
Resp == ClientDo(header, Timeout, reply)

Responded == reply.net = "ok" /\ Resp.err.nil

RECURSIVE Flatten(_)
Flatten(body) == IF body = <<>> THEN <<>> ELSE Head(body) \o Flatten(Tail(body))

\* A body starts with a JSON object none of whose fields fa, fb has a type
\* the Go struct cannot take, or with null.
StartsWith(body, fa, fb) ==
    /\ Flatten(body) # <<>>
    /\ LET doc == Flatten(body)[1]
       IN  \/ doc.kind = "null"
           \/ doc.kind = "object" /\ doc[fa].st # "wrongtype" /\ doc[fb].st # "wrongtype"

PayloadDecodable(body) == StartsWith(body, "code", "msg")

TickDecodable(body) == StartsWith(body, "symbol", "price")

FirstPrice(body) == Flatten(body)[1].price.v

\* The string without its leading and trailing white space.
Strip(s) ==
    LET keep == {i \in 1..Len(s) : s[i] \notin Whitespace}
    IN  IF keep = {} THEN <<>>
        ELSE SubSeq(s, CHOOSE i \in keep : \A j \in keep : i <= j,
                       CHOOSE i \in keep : \A j \in keep : j <= i)

\* A decimal numeral: digits with at most one point and at least one digit.
IsDecimal(s) ==
    /\ \A i \in 1..Len(s) : IsDigit(s[i]) \/ s[i] = "."
    /\ Cardinality({i \in 1..Len(s) : s[i] = "."}) <= 1
    /\ \E i \in 1..Len(s) : IsDigit(s[i])

\* The value of a decimal numeral, times PriceScale: the digit at position i
\* weighs 10^(dot-1-i) before the point and 10^-(i-dot) after it.
RECURSIVE DecimalSum(_, _, _)
DecimalSum(s, dot, i) ==
    IF i > Len(s) THEN 0
    ELSE DecimalSum(s, dot, i + 1) +
         (IF i < dot THEN DigitVal(s[i]) * PriceScale * Pow10(dot - 1 - i)
          ELSE IF i > dot THEN (DigitVal(s[i]) * PriceScale) \div Pow10(i - dot)
          ELSE 0)

DecimalValue(s) == DecimalSum(s, IF "." \in Range(s) THEN IndexOf(s, ".") ELSE Len(s) + 1, 1)

NumericPrice(body) == TickDecodable(body) /\ IsDecimal(Strip(FirstPrice(body)))

\* Some document of the body is a tick with a numeric price.
HasUsableTick(body) ==
    \E i \in 1..Len(Flatten(body)) :
        LET doc == Flatten(body)[i]
        IN  /\ doc.kind = "object"
            /\ doc.symbol.st = "ok"
            /\ doc.price.st = "ok"
            /\ IsDecimal(Strip(doc.price.v))

ExpectedTags == {<<"base", BaseAsset>>, <<"quote", QuoteAsset>>}

----------------------------------------------------------------------------
\* Properties.

\* C1: whatever the outcome of the price request, Gather returns nil; a
\* failure is only reported through the accumulator.
C1_GatherReturnsNil ==
    op = "Gather" => ret.nil

\* C2: a 200 response whose tick decodes but whose trimmed price is not a
\* number yields exactly one metric with the tag set and no "price" field,
\* and exactly one reported error.
C2_UnparsablePriceOmitsField ==
    (op = "Gather" /\ Responded /\ reply.status = StatusOK
        /\ TickDecodable(reply.body) /\ Flatten(reply.body)[1].price.st = "ok"
        /\ ~IsDecimal(Strip(FirstPrice(reply.body))))
    => /\ Len(Metrics(acc)) = 1
       /\ Metrics(acc)[1].tags = ExpectedTags
       /\ \A f \in Metrics(acc)[1].fields : f[1] # "price"
       /\ Len(Errors(acc)) = 1

\* C3: a non-200 response whose body does not decode as an error payload
\* yields exactly one error on the accumulator, wrapping the decode failure,
\* and no metric.
C3_UndecodableErrorBodyReported ==
    (op = "Gather" /\ Responded /\ reply.status # StatusOK /\ ~PayloadDecodable(reply.body))
    => /\ Len(Errors(acc)) = 1
       /\ Errors(acc)[1].err.wraps # <<>>
       /\ Metrics(acc) = <<>>

\* C4: a non-200 response whose body decodes as an error payload yields one
\* error with the remote message, code and symbol, and the cycle goes on: if
\* the body holds a usable tick, a metric is emitted.
C4_Non200StillEmitsTick ==
    (op = "Gather" /\ Responded /\ reply.status # StatusOK /\ PayloadDecodable(reply.body))
    => /\ Len(acc) >= 1
       /\ acc[1].call = "AddError"
       /\ Contains(acc[1].err.msg, BaseAsset \o QuoteAsset)
       /\ (HasUsableTick(reply.body) => Len(Metrics(acc)) = 1)

\* C5: with an empty baseAsset or quoteAsset, Init fails with the
\* configuration error and sends no request.
C5_EmptyAssetFailsBeforeNetwork ==
    (op = "Init" /\ (BaseAsset = <<>> \/ QuoteAsset = <<>>))
    => /\ ~ret.nil
       /\ ret.msg = <<"base_asset and quote_asset cannot be empty">>
       /\ phase = "Rejected"
       /\ reqs = 0
       /\ reply = NoReply

C5_Witness ==
    op = "Init" /\ BaseAsset # <<>> /\ QuoteAsset = <<>> /\ Timeout > 0 /\ phase = "Rejected"

\* C6: with both assets set, Init returns nil whenever the exchange-info
\* request comes back with status 200, whatever the body holds.
C6_Init200Succeeds ==
    (op = "Init" /\ BaseAsset # <<>> /\ QuoteAsset # <<>> /\ Responded
        /\ reply.status = StatusOK)
    => ret.nil /\ phase = "Validated"

C6_Witness ==
    /\ op = "Init" /\ Responded /\ reply.status = StatusOK
    /\ reply.body = <<<<Malformed>>>>
    /\ phase = "Validated"

\* C7: Init fails whenever the exchange-info request comes back with a
\* status other than 200: with an error payload that carries code and msg
\* the message contains the code, the msg and the symbol; with a body that
\* does not decode the error wraps the decode failure.
C7_InitNon200Fails ==
    (op = "Init" /\ Responded /\ reply.status # StatusOK)
    => /\ ~ret.nil
       /\ phase = "Rejected"
       /\ (PayloadDecodable(reply.body) /\ Flatten(reply.body)[1].kind = "object"
             /\ Flatten(reply.body)[1].code.st = "ok" /\ Flatten(reply.body)[1].msg.st = "ok")
          => /\ Contains(ret.msg, Itoa(Flatten(reply.body)[1].code.v))
             /\ Contains(ret.msg, Flatten(reply.body)[1].msg.v)
             /\ Contains(ret.msg, BaseAsset \o QuoteAsset)
       /\ ~PayloadDecodable(reply.body)
          => /\ ret.wraps # <<>>
             /\ Contains(ret.msg, <<"cannot decode response from ">>)

C7_Witness ==
    /\ op = "Init" /\ Responded /\ reply.status # StatusOK
    /\ reply.body = <<<<ErrDoc>>>>
    /\ Contains(ret.msg, <<"-", "1", "1", "2", "1">>)
    /\ phase = "Rejected"

\* The receiver as Init leaves it for the configuration in force.
Fresh ==
    InitCall([BaseAsset |-> BaseAsset, QuoteAsset |-> QuoteAsset, Timeout |-> Timeout,
              tags |-> {}, priceURL |-> NilURL, exchangeInfoURL |-> NilURL], NoReply).b

\* C8: a Gather whose request fails at the transport reports exactly one
\* error, emits no metric and returns nil; and what any Gather returns,
\* reports and emits is what the first Gather after Init would have done
\* with the same remote reply, whatever happened in earlier cycles.
C8_TransportFailureContained ==
    op = "Gather"
    => /\ ~Resp.err.nil
          => Len(acc) = 1 /\ acc[1].call = "AddError" /\ acc[1].err.wraps = Resp.err.msg
             /\ ret.nil
       /\ \E o \in {GatherCall(Fresh, reply)} :
             ret = o.ret /\ acc = o.acc /\ reqs = o.reqs

C8_Witness ==
    op = "Gather" /\ prevFailed /\ Responded /\ Len(Metrics(acc)) = 1

\* C9: a 200 response with a well-formed tick whose trimmed price is a
\* decimal numeral yields exactly one metric, with the numeral's value as
\* "price" and the tags base and quote of the configuration, and no error.
C9_NumericPriceEmitted ==
    (op = "Gather" /\ Responded /\ reply.status = StatusOK /\ NumericPrice(reply.body)
        /\ Flatten(reply.body)[1].kind = "object")
    => /\ acc = <<AddFields("binance",
                            {<<"price", DecimalValue(Strip(FirstPrice(reply.body)))>>},
                            ExpectedTags)>>
       /\ ret.nil

C9_Witness ==
    /\ op = "Gather" /\ Responded /\ reply.status = StatusOK
    /\ reply.body = <<<<TickDoc(<<".", "5">>)>>>>
    /\ Len(acc) = 1
    /\ acc[1].fields = {<<"price", PriceScale \div 2>>}

\* What is left of the body when Gather comes to decode the tick.
TickStepBody ==
    IF reply.status = StatusOK THEN reply.body ELSE DecodePayload(reply.body).rest

TickStepReached ==
    op = "Gather" /\ Responded /\ (reply.status = StatusOK \/ PayloadDecodable(reply.body))

----------------------------------------------------------------------------
\* Resources, configuration, request count and order of the reports.

\* C12: when a call of Init or Gather that went to the network returns, its
\* deadline context is cancelled and the response body is not left open.
C12_ResourcesReleasedAtReturn ==
    (op \in {"Init", "Gather"} /\ doCalls >= 1)
    => ctxState = "cancelled" /\ respBody # "open"

\* C13: whatever its outcome, a Gather leaves baseAsset, quoteAsset, timeout,
\* the tag set, the price URL and the exchange-info URL as Init left them.
C13_GatherKeepsConfiguration ==
    op = "Gather" => Self = atInit

C13_Witness ==
    /\ op = "Gather" /\ prevFailed /\ Responded /\ reply.status # StatusOK
    /\ ~ret.nil
    /\ Self = atInit /\ tags = ExpectedTags /\ ~priceURL.nil

\* The last call was cut because its deadline had passed.
CutByDeadline ==
    \/ op = "Init" /\ ret.wraps = <<"context deadline exceeded">>
    \/ op = "Gather" /\ acc # <<>> /\ acc[1].call = "AddError"
          /\ acc[1].err.wraps = <<"context deadline exceeded">>

\* C14: with the default timeout a call is cut as a transport failure when
\* the reply takes 5 seconds or more; with the timeout set to zero no call is
\* cut by a deadline.
C14_ZeroTimeoutDisablesDeadline ==
    doCalls = 1
    => /\ (Timeout = DefaultTimeout /\ reply.net = "ok" /\ reply.delay >= DefaultTimeout)
          => CutByDeadline
       /\ Timeout = 0 => ~CutByDeadline

\* The value of the "symbol" parameter in the URL's query.
QueryValue(u) ==
    IF u.RawQuery # <<>> /\ Head(u.RawQuery) = "symbol=" THEN Tail(u.RawQuery) ELSE <<>>

\* C15: for non-empty assets, both URLs Init built carry baseAsset followed
\* by quoteAsset as the value of their symbol parameter.
C15_SymbolInBothURLs ==
    (op = "Init" /\ BaseAsset # <<>> /\ QuoteAsset # <<>>
        /\ ~priceURL.nil /\ ~exchangeInfoURL.nil)
    => /\ QueryValue(priceURL) = BaseAsset \o QuoteAsset
       /\ QueryValue(exchangeInfoURL) = BaseAsset \o QuoteAsset

\* C16: a Gather calls the client exactly once and an Init at most once, and
\* no call sends its request more than once; with a positive timeout the one
\* call of a Gather puts exactly one request on the wire.
C16_OneCallNoRetry ==
    /\ op = "Gather" => doCalls = 1 /\ reqs <= 1 /\ (Timeout > 0 => reqs = 1)
    /\ op = "Init" => doCalls <= 1 /\ reqs <= doCalls

C16_Witness ==
    op = "Gather" /\ TransportFailed /\ reply.net = "refused" /\ reqs = 1 /\ doCalls = 1

\* Init met one of its failures: the configuration, the transport, or a
\* status other than 200.
InitFailure ==
    BaseAsset = <<>> \/ QuoteAsset = <<>> \/ ~Resp.err.nil \/ reply.status # StatusOK

SteppedError(e) ==
    Head(e.err.msg) \in {"cannot decode response from ", "cannot parse price "}

StatusError(e) == Head(e.err.msg) = "binance responsed with status "

\* C19: a Gather reports at most two errors, at most one of them for the
\* status and at most one for the tick decode or the price parse, and it
\* reports none after it has emitted the metric.
C19_ErrorsPrecedeMetric ==
    op = "Gather"
    => /\ Len(Errors(acc)) <= 2
       /\ Len(SelectSeq(Errors(acc), StatusError)) <= 1
       /\ Len(SelectSeq(Errors(acc), SteppedError)) <= 1
       /\ \A i, j \in 1..Len(acc) :
             (acc[i].call = "AddFields" /\ acc[j].call = "AddError") => j < i

C19_Witness ==
    /\ op = "Gather" /\ Responded /\ reply.status # StatusOK
    /\ Len(Errors(acc)) = 2 /\ Len(acc) = 3
    /\ acc[3].call = "AddFields"
    /\ StatusError(acc[1]) /\ SteppedError(acc[2])

\* C11: a Gather calls AddFields at most once, so the metrics emitted by any
\* number of Gather calls are no more than the calls.
C11_AtMostOneMetricPerGather ==
    /\ op = "Gather" => Len(Metrics(acc)) <= 1
    /\ nMetrics <= nGather

C11_Witness ==
    /\ op = "Gather" /\ nGather = MaxCalls /\ nMetrics >= 1 /\ nMetrics < nGather
    /\ Len(Metrics(acc)) = 1 /\ Len(Errors(acc)) = 2

FixedHeaders ==
    {<<"User-Agent", "Telegraf">>, <<"Accept", "application/json">>,
     <<"Content-Type", "application/json">>}

\* C18: however the steps of several collectors' Init and Gather calls
\* interleave, every request that is built or sent carries exactly the three
\* fixed headers, and the process-wide header map stays as it was declared.
C18_SharedHeaderNeverWritten ==
    /\ hdr = FixedHeaders
    /\ \A w \in wire : w.Header = FixedHeaders
    /\ \A i \in Instances :
          inst[i].pc \in {"initReq", "gatherReq"} => inst[i].req.Header = FixedHeaders

C18_Witness ==
    /\ inst[1].pc = "gatherReq" /\ inst[2].pc = "initReq"
    /\ wire = {[op |-> "Init", Header |-> FixedHeaders], [op |-> "Gather", Header |-> FixedHeaders]}

====
